---- MODULE Spec2Model ----
(***************************************************************************)
(* A model of llmscrape.py: the single-domain crawler (crawl), the page    *)
(* extractor (parse_data), the fetch collaborator (fetch_page) and the     *)
(* script's main block (credential check, crawl, call_llm, save_output).   *)
(*                                                                         *)
(* A URL string is a sequence of tokens, for instance                      *)
(*   "https://example.com/a"  is  <<"https", ":", "//", "example.com", "/a">> *)
(*   "/a"                     is  <<"/a">>                                 *)
(*   "mailto:x@example.com"   is  <<"mailto", ":", "x@example.com">>       *)
(* and urlparse / urljoin work on the tokens as urllib.parse works on the  *)
(* characters.  Text is a sequence of characters.                          *)
(***************************************************************************)
EXTENDS Integers, Sequences, FiniteSets, Bags, TLC

(* ------------------------------ bounds --------------------------------- *)
\* largest page budget (MAX_PAGES_TO_CRAWL) a run is configured with
MaxPages == 3
\* largest number of <a href> elements on one page
MaxAnchors == 2

(* ------------------------- program constants --------------------------- *)
START_URL == <<"https", ":", "//", "example.com">>
REQUEST_DELAY == 1
OUTPUT_FILE == "llm_analysis.txt"

(* --------------------------- urllib.parse ------------------------------ *)
\* str.lower() on a scheme token
Lower(tok) ==
  CASE tok = "HTTP" -> "http"
    [] tok = "HTTPS" -> "https"
    [] OTHER -> tok

\* urlparse(url): scheme up to the first ":", netloc after "//", then the path
urlparse(url) ==
  LET hasScheme == Len(url) >= 2 /\ url[2] = ":"
      rest      == IF hasScheme THEN SubSeq(url, 3, Len(url)) ELSE url
      hasNetloc == Len(rest) >= 1 /\ rest[1] = "//"
      tail      == IF hasNetloc THEN SubSeq(rest, 3, Len(rest)) ELSE rest
  IN  [scheme |-> IF hasScheme THEN Lower(url[1]) ELSE "",
       netloc |-> IF hasNetloc /\ Len(rest) >= 2 THEN rest[2] ELSE "",
       path   |-> IF Len(tail) >= 1 THEN tail[1] ELSE ""]

\* urlunparse((scheme, netloc, path, '', '', ''))
urlunparse(scheme, netloc, path) ==
  (IF scheme = "" THEN <<>> ELSE <<scheme, ":">>)
    \o (IF netloc = "" THEN <<>> ELSE <<"//", netloc>>)
    \o (IF path = "" THEN <<>> ELSE <<path>>)

uses_relative == {"", "ftp", "http", "https", "file"}
uses_netloc == {"", "ftp", "http", "https", "file"}

\* urljoin(base, url) for references that are empty, absolute, network-path
\* ("//host/p") or absolute-path ("/p")
urljoin(base, url) ==
  IF base = <<>> THEN url
  ELSE IF url = <<>> THEN base
  ELSE
    LET b == urlparse(base)
        u == urlparse(url)
        scheme == IF u.scheme = "" THEN b.scheme ELSE u.scheme
    IN  IF scheme # b.scheme \/ scheme \notin uses_relative THEN url
        ELSE IF scheme \in uses_netloc /\ u.netloc # ""
          THEN urlunparse(scheme, u.netloc, u.path)
        ELSE IF u.path = "" THEN urlunparse(scheme, b.netloc, b.path)
        ELSE urlunparse(scheme, b.netloc, u.path)

ALLOWED_DOMAIN == urlparse(START_URL).netloc

(* ------------------------------ the web -------------------------------- *)
\* href attribute values that pages carry
Hrefs ==
  { <<"/a">>, <<"/b">>, <<>>,
    <<"http", ":", "//", "example.com", "/a">>,
    <<"https", ":", "//", "other.com", "/a">>,
    <<"https", ":", "//", "sub.example.com", "/a">>,
    <<"ftp", ":", "//", "example.com", "/f">>,
    <<"mailto", ":", "x@example.com">> }

\* what a page carries besides its anchors: src attribute values, the visible
\* text as soup.get_text(separator=' ', strip=True) gives it, and the markdown
\* renderings of the tables pandas finds
Bodies ==
  { [imgs |-> {}, text |-> <<"x">>, tables |-> <<>>],
    [imgs |-> { <<"/i.png">>,
                <<"https", ":", "//", "cdn.other.com", "/i.png">> },
     text |-> <<"x", "\n", "\n", "y">>, tables |-> <<"|m|", "|m|">>] }

BoundedSubsets(S, n) == { T \in SUBSET S : Cardinality(T) <= n }

\* fetch_page's return values: None, or response.text (possibly empty)
None ==
  [none |-> TRUE, raw |-> "", anchors |-> {}, imgs |-> {},
   text |-> <<>>, tables |-> <<>>]

EmptyBody ==
  [none |-> FALSE, raw |-> "", anchors |-> {}, imgs |-> {},
   text |-> <<>>, tables |-> <<>>]

Documents ==
  { [none |-> FALSE, raw |-> "<html>", anchors |-> as,
     imgs |-> body.imgs, text |-> body.text, tables |-> body.tables] :
      as \in BoundedSubsets(Hrefs, MaxAnchors), body \in Bodies }

\* bool(html_content)
Truthy(html) == ~html.none /\ html.raw # ""

(* ----------------------------- parse_data ------------------------------ *)
\* line 53 without the comparison of the host
LinkAllowed_AnyHost(full_url) ==
  urlparse(full_url).scheme \in {"http", "https"}

\* line 53 without the test of the scheme
LinkAllowed_AnyScheme(full_url) ==
  urlparse(full_url).netloc = ALLOWED_DOMAIN

\* the filter of line 53
LinkAllowed(full_url) ==
  LET parsed_link == urlparse(full_url)
  IN  parsed_link.scheme \in {"http", "https"}
        /\ parsed_link.netloc = ALLOWED_DOMAIN

\* lines 48-54
PageLinks(html, base_url) ==
  { full_url \in { urljoin(base_url, href) : href \in html.anchors } :
      LinkAllowed(full_url) }

\* lines 57-60 with the domain filter of the links applied to images
PageImages_SameDomain(html, base_url) ==
  { full_img_url \in { urljoin(base_url, src) : src \in html.imgs } :
      urlparse(full_img_url).netloc = ALLOWED_DOMAIN }

\* lines 57-60
PageImages(html, base_url) ==
  { urljoin(base_url, src) : src \in html.imgs }

\* f"Table {i+1}:\n{table_df.to_markdown(index=False)}\n" is <<i+1, markdown>>
PageTables(html) ==
  [i \in 1..Len(html.tables) |-> <<i, html.tables[i]>>]

parse_data(html, base_url) ==
  [text   |-> html.text,
   links  |-> PageLinks(html, base_url),
   images |-> PageImages(html, base_url),
   tables |-> PageTables(html)]

(* ------------------------------- state --------------------------------- *)
VARIABLES
  pc,                  \* position of the script
  GOOGLE_API_KEY,      \* os.getenv("GOOGLE_API_KEY"): "" when unset
  MAX_PAGES_TO_CRAWL,  \* the page budget of this run
  urls_to_visit,       \* crawl(): the frontier
  visited_urls,        \* crawl(): URLs already attempted
  current_url,         \* crawl(): the URL popped last
  all_text,            \* all_scraped_data['all_text']
  all_links,           \* all_scraped_data['all_links']
  all_images,          \* all_scraped_data['all_images']
  all_tables,          \* all_scraped_data['all_tables']
  fetch_calls,         \* bag of the URLs fetch_page was called with
  fetch_budget_ok,     \* len(visited_urls) < budget held at every fetch_page call
  sleep_calls,         \* seconds slept in time.sleep(REQUEST_DELAY)
  last_fetch,          \* outcome of the last fetch_page call
  failed_urls,         \* the URLs for which fetch_page returned None
  relinked,            \* kinds of known URL that parsed pages linked to
  dup_offered,         \* a parsed page linked to a URL already in the frontier
  skips,               \* iterations ended by the `continue` of line 143
  page_images,         \* image URLs on the pages parse_data was given
  foreign_anchor,      \* a parsed page carried an anchor the filter rejects
  llm_calls,           \* calls of call_llm
  llm_interpretation,  \* what call_llm returned
  llm_failed,          \* generate_content raised in call_llm
  output_file,         \* content of OUTPUT_FILE, "" while not written
  stdout,              \* the final message the script printed
  prompt,              \* the prompt built from a given corpus
  prompt_rerun         \* the prompt built from the same corpus by another run

vars ==
  <<pc, GOOGLE_API_KEY, MAX_PAGES_TO_CRAWL, urls_to_visit, visited_urls,
    current_url, all_text, all_links, all_images, all_tables, fetch_calls,
    fetch_budget_ok, sleep_calls, last_fetch, failed_urls, relinked,
    dup_offered, skips, page_images, foreign_anchor, llm_calls,
    llm_interpretation, llm_failed, output_file, stdout, prompt,
    prompt_rerun>>

crawlVars ==
  <<urls_to_visit, visited_urls, current_url, all_text, all_links,
    all_images, all_tables, fetch_calls, fetch_budget_ok, sleep_calls,
    last_fetch, failed_urls, relinked, dup_offered, skips, page_images,
    foreign_anchor>>

reportVars ==
  <<llm_calls, llm_interpretation, llm_failed, output_file, stdout>>

configVars == <<GOOGLE_API_KEY, MAX_PAGES_TO_CRAWL>>

promptVars == <<prompt, prompt_rerun>>

Init ==
  /\ pc = "main"
  /\ GOOGLE_API_KEY \in {"", "key"}
  /\ MAX_PAGES_TO_CRAWL \in 1..MaxPages
  /\ urls_to_visit = {}
  /\ visited_urls = {}
  /\ current_url = <<>>
  /\ all_text = <<>>
  /\ all_links = {}
  /\ all_images = {}
  /\ all_tables = <<>>
  /\ fetch_calls = EmptyBag
  /\ fetch_budget_ok = TRUE
  /\ sleep_calls = 0
  /\ last_fetch = "none"
  /\ failed_urls = {}
  /\ relinked = {}
  /\ dup_offered = FALSE
  /\ skips = 0
  /\ page_images = {}
  /\ foreign_anchor = FALSE
  /\ llm_calls = 0
  /\ llm_interpretation = ""
  /\ llm_failed = FALSE
  /\ output_file = ""
  /\ stdout = ""
  /\ prompt = <<>>
  /\ prompt_rerun = <<>>

(* ------------------------------- crawl --------------------------------- *)
\* line 170 without the test
KeyPresent_Always(key) == TRUE

\* `not GOOGLE_API_KEY` of line 170 is false
KeyPresent(key) == key # ""

\* line 139 with the budget compared by <=
ShouldContinue_OffByOne(frontier, visited, maxPages) ==
  frontier # {} /\ Cardinality(visited) <= maxPages

\* the loop condition of line 139
ShouldContinue(frontier, visited, maxPages) ==
  frontier # {} /\ Cardinality(visited) < maxPages

\* line 149 moved under `if html_content:`
MarkVisited_OnSuccess(visited, url, html) ==
  IF html.none \/ html.raw = "" THEN visited ELSE visited \cup {url}

\* line 149, which runs whatever fetch_page returned
MarkVisited(visited, url, html) == visited \cup {url}

\* line 162 without the subtraction
NewLinks_Unfiltered(links, visited) == links

\* line 162
NewLinks(links, visited) == links \ visited

\* lines 169-174 and 130-137: the credential check, then crawl()'s locals
Main ==
  /\ pc = "main"
  /\ IF KeyPresent(GOOGLE_API_KEY)
       THEN /\ pc' = "while"
            /\ urls_to_visit' = {START_URL}
            /\ UNCHANGED stdout
       ELSE /\ pc' = "exit"
            /\ stdout' = "Error: GOOGLE_API_KEY environment variable not set."
            /\ UNCHANGED urls_to_visit
  /\ UNCHANGED <<visited_urls, current_url, all_text, all_links, all_images,
                 all_tables, fetch_calls, fetch_budget_ok, sleep_calls,
                 last_fetch, failed_urls, relinked, dup_offered, skips,
                 page_images, foreign_anchor>>
  /\ UNCHANGED <<llm_calls, llm_interpretation, llm_failed, output_file>>
  /\ UNCHANGED <<configVars, promptVars>>

\* line 139, and lines 165-166 when the condition is false
While ==
  /\ pc = "while"
  /\ pc' = IF ShouldContinue(urls_to_visit, visited_urls, MAX_PAGES_TO_CRAWL)
             THEN "pop" ELSE "returned"
  /\ UNCHANGED <<crawlVars, reportVars, configVars, promptVars>>

\* line 140 as a peek: the element is returned and stays in the set
Remaining_Peek(frontier, url) == frontier

\* line 140: what set.pop() leaves in the set
Remaining(frontier, url) == frontier \ {url}

\* lines 142-148 without the sleep
AfterPop_NoSleep(url, visited) ==
  IF url \in visited THEN "while" ELSE "fetch"

\* lines 142-146: `continue` for a visited URL, else on to time.sleep
AfterPop(url, visited) ==
  IF url \in visited THEN "while" ELSE "sleep"

\* lines 140-143: set.pop() returns any element
Pop ==
  /\ pc = "pop"
  /\ \E url \in urls_to_visit :
       /\ current_url' = url
       /\ urls_to_visit' = Remaining(urls_to_visit, url)
       /\ pc' = AfterPop(url, visited_urls)
       /\ skips' = IF url \in visited_urls THEN skips + 1 ELSE skips
  /\ UNCHANGED <<visited_urls, all_text, all_links, all_images, all_tables,
                 fetch_calls, fetch_budget_ok, sleep_calls, last_fetch,
                 failed_urls, relinked, dup_offered, page_images,
                 foreign_anchor>>
  /\ UNCHANGED <<reportVars, configVars, promptVars>>

\* line 146
Sleep ==
  /\ pc = "sleep"
  /\ sleep_calls' = sleep_calls + REQUEST_DELAY
  /\ pc' = "fetch"
  /\ UNCHANGED <<urls_to_visit, visited_urls, current_url, all_text,
                 all_links, all_images, all_tables, fetch_calls,
                 fetch_budget_ok, last_fetch, failed_urls, relinked,
                 dup_offered, skips, page_images, foreign_anchor>>
  /\ UNCHANGED <<reportVars, configVars, promptVars>>

\* line 156 as an assignment instead of +=
MergeText_Overwrite(text, page_text) == page_text \o <<"\n", "\n">>

\* line 156
MergeText(text, page_text) == text \o page_text \o <<"\n", "\n">>

\* lines 148-163: fetch_page, visited_urls.add, and for a truthy body
\* parse_data, the aggregation and the frontier update
Fetch ==
  /\ pc = "fetch"
  /\ \E html_content \in {None, EmptyBody} \cup Documents :
       LET page_data == parse_data(html_content, current_url)
           visited   == MarkVisited(visited_urls, current_url, html_content)
       IN  /\ fetch_calls' = fetch_calls (+) SetToBag({current_url})
           /\ fetch_budget_ok' =
                (fetch_budget_ok
                   /\ Cardinality(visited_urls) < MAX_PAGES_TO_CRAWL)
           /\ visited_urls' = visited
           /\ last_fetch' = IF html_content.none THEN "failed"
                            ELSE IF html_content.raw = "" THEN "empty"
                            ELSE "ok"
           /\ failed_urls' = IF html_content.none
                               THEN failed_urls \cup {current_url}
                               ELSE failed_urls
           /\ IF Truthy(html_content)
                THEN /\ all_text' = MergeText(all_text, page_data.text)
                     /\ all_links' = all_links \cup page_data.links
                     /\ all_images' = all_images \cup page_data.images
                     /\ all_tables' = all_tables \o page_data.tables
                     /\ urls_to_visit' =
                          urls_to_visit \cup NewLinks(page_data.links, visited)
                     /\ relinked' =
                          relinked
                            \cup (IF current_url \in page_data.links
                                    THEN {"self"} ELSE {})
                            \cup (IF page_data.links \cap failed_urls # {}
                                    THEN {"failed"} ELSE {})
                     /\ dup_offered' =
                          (dup_offered
                             \/ page_data.links \cap urls_to_visit # {})
                     /\ page_images' =
                          page_images \cup
                            { urljoin(current_url, src) : src \in html_content.imgs }
                     /\ foreign_anchor' =
                          (foreign_anchor \/
                             \E href \in html_content.anchors :
                               LET p == urlparse(urljoin(current_url, href))
                               IN  p.scheme \notin {"http", "https"}
                                     \/ p.netloc # ALLOWED_DOMAIN)
                ELSE UNCHANGED <<all_text, all_links, all_images, all_tables,
                                 urls_to_visit, relinked, dup_offered,
                                 page_images, foreign_anchor>>
  /\ pc' = "while"
  /\ UNCHANGED <<current_url, sleep_calls, skips>>
  /\ UNCHANGED <<reportVars, configVars, promptVars>>

(* ------------------------------ reporting ------------------------------ *)
\* line 175 without the test
HasData_Always(text, links, images, tables) == TRUE

\* the condition of line 175
HasData(text, links, images, tables) ==
  text # <<>> \/ links # {} \/ images # {} \/ tables # <<>>

\* lines 175-179
Report ==
  /\ pc = "returned"
  /\ IF HasData(all_text, all_links, all_images, all_tables)
       THEN pc' = "call_llm" /\ UNCHANGED stdout
       ELSE pc' = "exit" /\ stdout' = "No data was scraped successfully."
  /\ UNCHANGED <<llm_calls, llm_interpretation, llm_failed, output_file>>
  /\ UNCHANGED <<crawlVars, configVars, promptVars>>

(* ------------------------------- call_llm ------------------------------ *)
\* the slice limits of lines 91, 94, 97, 103 and 106
TEXT_CHARS == 500
LINK_LIMIT == 10
IMAGE_LIMIT == 10
TABLE_LIMIT == 3
TABLE_CHARS == 300

\* seq[:n]
Take(seq, n) == SubSeq(seq, 1, IF Len(seq) < n THEN Len(seq) ELSE n)

Reverse(seq) == [i \in 1..Len(seq) |-> seq[Len(seq) + 1 - i]]

RECURSIVE Canon(_)
\* one enumeration of a set
Canon(S) ==
  IF S = {} THEN <<>>
  ELSE LET x == CHOOSE y \in S : TRUE
       IN  <<x>> \o Canon(S \ {x})

\* list(a_set): the order is that of the hash table, which for strings
\* changes with the interpreter's hash seed; two of the possible orders
ListOfSet(S) == { Canon(S), Reverse(Canon(S)) }

\* the `len(...) > 10` of lines 94 and 97 as >=
Truncated_OffByOne(n, limit) == n >= limit

\* the `len(...) > 10` of lines 94 and 97, and the `i >= 3` reached at line 103
Truncated(n, limit) == n > limit

\* lines 88-106 given list(all_links) and list(all_images); the first
\* TABLE_CHARS characters of a table string are <<number, string, TABLE_CHARS>>
BuildPrompt(seed, text, links_list, images_list, tables) ==
  [seed          |-> seed,
   text          |-> Take(text, TEXT_CHARS) \o <<".", ".", ".">>,
   links_total   |-> Len(links_list),
   links         |-> Take(links_list, LINK_LIMIT),
   links_marker  |-> IF Truncated(Len(links_list), LINK_LIMIT)
                       THEN <<"...">> ELSE <<>>,
   images_total  |-> Len(images_list),
   images        |-> Take(images_list, IMAGE_LIMIT),
   images_marker |-> IF Truncated(Len(images_list), IMAGE_LIMIT)
                       THEN <<"...">> ELSE <<>>,
   tables_total  |-> Len(tables),
   tables        |-> [i \in 1..Len(Take(tables, TABLE_LIMIT)) |->
                        <<i, tables[i], TABLE_CHARS>>],
   tables_marker |-> IF Truncated(Len(tables), TABLE_LIMIT)
                       THEN <<"... (more tables exist)">> ELSE <<>>]

\* the prompts call_llm can build from one corpus
BuildPrompts(seed, text, links, images, tables) ==
  { BuildPrompt(seed, text, links_list, images_list, tables) :
      links_list \in ListOfSet(links), images_list \in ListOfSet(images) }

\* model.generate_content(prompt): a response, or an exception
GenerateContent(built) ==
  { [raised |-> FALSE, text |-> "response.text"],
    [raised |-> TRUE, text |-> "e"] }

\* lines 114-116 returning nothing for an exception
LlmReturn_Swallow(reply) ==
  IF reply.raised THEN "" ELSE reply.text

\* lines 109-116: response.text, or the text of the error
LlmReturn(reply) ==
  IF reply.raised THEN "Error during LLM processing: e" ELSE reply.text

\* lines 78-116
call_llm ==
  /\ pc = "call_llm"
  /\ llm_calls' = llm_calls + 1
  /\ IF KeyPresent(GOOGLE_API_KEY)
       THEN \E built \in BuildPrompts(START_URL, all_text, all_links,
                                       all_images, all_tables) :
              \E reply \in GenerateContent(built) :
                /\ llm_interpretation' = LlmReturn(reply)
                /\ llm_failed' = reply.raised
       ELSE /\ llm_interpretation' =
                 "Error: GOOGLE_API_KEY not found in environment variables."
            /\ UNCHANGED llm_failed
  /\ pc' = "save_output"
  /\ UNCHANGED <<output_file, stdout>>
  /\ UNCHANGED <<crawlVars, configVars, promptVars>>

\* lines 118-125: the write, or the IOError that open() raised
save_output ==
  /\ pc = "save_output"
  /\ \/ /\ output_file' = llm_interpretation
        /\ stdout' = "LLM output saved to llm_analysis.txt"
     \/ /\ output_file' = output_file
        /\ stdout' = "Error saving output to llm_analysis.txt: e"
  /\ pc' = "exit"
  /\ UNCHANGED <<llm_calls, llm_interpretation, llm_failed>>
  /\ UNCHANGED <<crawlVars, configVars, promptVars>>

Next ==
  \/ Main
  \/ While
  \/ Pop
  \/ Sleep
  \/ Fetch
  \/ Report
  \/ call_llm
  \/ save_output

Spec == Init /\ [][Next]_vars

\* the script always takes its next step: requests.get has a timeout and
\* time.sleep returns
CrawlStep == Main \/ While \/ Pop \/ Sleep \/ Fetch

FairSpec == Spec /\ WF_vars(CrawlStep)

(* ------------------- call_llm's prompt as a function ------------------- *)
\* how far the corpora given to the prompt exceed the slice limits
MaxExtra == 1

\* corpora as crawls of larger sites leave them: n links, n images
LinkPool(n) ==
  { <<"https", ":", "//", "example.com", "/" \o ToString(i)>> : i \in 1..n }

ImagePool(n) ==
  { <<"https", ":", "//", "cdn.other.com", "/" \o ToString(i)>> : i \in 1..n }

TablePool(n) == [i \in 1..n |-> <<i, "|m|">>]

TextPool ==
  { <<"x", "\n", "\n">>, [i \in 1..(TEXT_CHARS + MaxExtra) |-> "x"] }

PromptInit ==
  /\ pc = "prompt"
  /\ GOOGLE_API_KEY = "key"
  /\ MAX_PAGES_TO_CRAWL = 1
  /\ urls_to_visit = {}
  /\ visited_urls = {}
  /\ current_url = <<>>
  /\ all_text \in TextPool
  /\ all_links \in { LinkPool(n) : n \in 0..(LINK_LIMIT + MaxExtra) }
  /\ all_images \in { ImagePool(n) : n \in 0..(IMAGE_LIMIT + MaxExtra) }
  /\ all_tables \in { TablePool(n) : n \in 0..(TABLE_LIMIT + MaxExtra) }
  /\ fetch_calls = EmptyBag
  /\ fetch_budget_ok = TRUE
  /\ sleep_calls = 0
  /\ last_fetch = "none"
  /\ failed_urls = {}
  /\ relinked = {}
  /\ dup_offered = FALSE
  /\ skips = 0
  /\ page_images = {}
  /\ foreign_anchor = FALSE
  /\ llm_calls = 0
  /\ llm_interpretation = ""
  /\ llm_failed = FALSE
  /\ output_file = ""
  /\ stdout = ""
  /\ prompt = <<>>
  /\ prompt_rerun = <<>>

\* lines 88-106 in one run
PromptFirst ==
  /\ pc = "prompt"
  /\ prompt' \in BuildPrompts(START_URL, all_text, all_links, all_images,
                               all_tables)
  /\ pc' = "prompt_rerun"
  /\ UNCHANGED <<prompt_rerun, crawlVars, reportVars, configVars>>

\* lines 88-106 in another run that ended with the same corpus
PromptSecond ==
  /\ pc = "prompt_rerun"
  /\ prompt_rerun' \in BuildPrompts(START_URL, all_text, all_links,
                                     all_images, all_tables)
  /\ pc' = "prompt_done"
  /\ UNCHANGED <<prompt, crawlVars, reportVars, configVars>>

PromptNext ==
  \/ PromptFirst
  \/ PromptSecond

PromptSpec == PromptInit /\ [][PromptNext]_vars

(* ------------------------------ properties ----------------------------- *)
\* scheme in {http, https} and host equal to the seed's host
InDomain(url) ==
  LET p == urlparse(url)
  IN  p.scheme \in {"http", "https"} /\ p.netloc = ALLOWED_DOMAIN

Fetched == BagToSet(fetch_calls)

CorpusUnchanged == UNCHANGED <<all_text, all_links, all_images, all_tables>>

CorpusEmpty ==
  all_text = <<>> /\ all_links = {} /\ all_images = {} /\ all_tables = <<>>

\* C1: in every state the number of visited URLs is at most the page budget,
\* and the number of fetch_page calls made so far equals the number of
\* visited URLs.
C1_VisitedWithinBudget ==
  /\ Cardinality(visited_urls) <= MAX_PAGES_TO_CRAWL
  /\ BagCardinality(fetch_calls) = Cardinality(visited_urls)

\* crawl() returned because the budget was used up, links still pending,
\* after a failed fetch and a page that linked to itself
C1_Witness ==
  /\ pc = "returned"
  /\ MAX_PAGES_TO_CRAWL >= 2
  /\ Cardinality(visited_urls) = MAX_PAGES_TO_CRAWL
  /\ urls_to_visit # {}
  /\ failed_urls # {}
  /\ "self" \in relinked

\* C2: no URL is passed to fetch_page more than once in a run, and the URL
\* about to be fetched is not in visited_urls.
C2_NoRefetch ==
  /\ \A url \in Fetched : CopiesIn(url, fetch_calls) = 1
  /\ pc \in {"sleep", "fetch"} => current_url \notin visited_urls

\* crawl() returned after pages linked back to a URL whose fetch had failed
\* and to a URL whose fetch had succeeded
C2_Witness ==
  /\ pc = "returned"
  /\ "failed" \in relinked
  /\ "self" \in relinked
  /\ BagCardinality(fetch_calls) >= 3

\* C3: the budget is tested before every fetch: fetch_page is only called
\* with fewer than budget URLs visited, no pop, sleep or fetch happens once
\* the budget is reached, and a run makes at most budget fetches.
C3_BudgetBeforeFetch ==
  /\ fetch_budget_ok
  /\ pc \in {"pop", "sleep", "fetch"} =>
       Cardinality(visited_urls) < MAX_PAGES_TO_CRAWL
  /\ BagCardinality(fetch_calls) <= MAX_PAGES_TO_CRAWL
  /\ sleep_calls <= MAX_PAGES_TO_CRAWL * REQUEST_DELAY

\* the loop stopped on the budget with the frontier still holding links
C3_Witness ==
  /\ pc = "returned"
  /\ MAX_PAGES_TO_CRAWL >= 2
  /\ BagCardinality(fetch_calls) = MAX_PAGES_TO_CRAWL
  /\ sleep_calls = MAX_PAGES_TO_CRAWL * REQUEST_DELAY
  /\ urls_to_visit # {}

\* C4: the frontier and the visited set are disjoint, so a visited URL
\* (the page's own URL included) that a page links to is not put back in
\* the frontier.
C4_FrontierVisitedDisjoint == urls_to_visit \cap visited_urls = {}

\* at the loop test, after a page linked to itself and a page linked to an
\* earlier, failed, URL, neither of which is in the frontier
C4_Witness ==
  /\ pc = "while"
  /\ last_fetch = "ok"
  /\ "self" \in relinked
  /\ "failed" \in relinked
  /\ current_url \notin urls_to_visit
  /\ failed_urls \cap urls_to_visit = {}

\* C5: every URL in the frontier or passed to fetch_page is the seed or has
\* scheme http/https and the seed's host.
C5_StaysInDomain ==
  \A url \in urls_to_visit \cup Fetched
               \cup (IF pc \in {"sleep", "fetch"} THEN {current_url} ELSE {}) :
    url = START_URL \/ InDomain(url)

\* pages carried anchors the filter rejects, and the crawl went on to fetch
\* an http URL of the domain
C5_Witness ==
  /\ foreign_anchor
  /\ BagCardinality(fetch_calls) >= 2
  /\ \E url \in Fetched : urlparse(url).scheme = "http"
  /\ urls_to_visit # {}

\* C6: every element of all_links has scheme http/https and the seed's host.
C6_LinksInDomain == \A url \in all_links : InDomain(url)

\* links were collected from pages that also carried rejected anchors
C6_Witness ==
  /\ foreign_anchor
  /\ Cardinality(all_links) >= 2
  /\ pc = "returned"

\* C7: every image source of every page given to parse_data, whatever its
\* host, is in all_images from then on.
C7_ImagesUnfiltered == page_images \subseteq all_images

\* the run ended with an image of another host collected
C7_Witness ==
  /\ pc = "exit"
  /\ \E img \in all_images : urlparse(img).netloc # ALLOWED_DOMAIN
  /\ \E img \in page_images : urlparse(img).netloc = ALLOWED_DOMAIN

C8_FailedFetchStep ==
  pc = "fetch" /\ pc' # "fetch" /\ last_fetch' = "failed"

\* C8: a fetch that returns None marks the URL visited, leaves the corpus
\* and the frontier as they were and returns to the loop test; the loop then
\* pops the next URL when frontier and budget allow; a failed URL is not
\* fetched again.
C8_FailedFetchSkips ==
  /\ [][C8_FailedFetchStep =>
          /\ visited_urls' = visited_urls \cup {current_url}
          /\ UNCHANGED <<all_text, all_links, all_images, all_tables>>
          /\ UNCHANGED urls_to_visit
          /\ pc' = "while"]_vars
  /\ [][(/\ pc = "while"
         /\ last_fetch = "failed"
         /\ urls_to_visit # {}
         /\ Cardinality(visited_urls) < MAX_PAGES_TO_CRAWL) => pc' = "pop"]_vars
  /\ [](\A url \in failed_urls :
          /\ url \in visited_urls
          /\ url \notin urls_to_visit
          /\ CopiesIn(url, fetch_calls) = 1)

\* the loop goes on to pop another URL right after a failed fetch
C8_Witness ==
  /\ pc = "pop"
  /\ last_fetch = "failed"
  /\ current_url \in failed_urls
  /\ all_text # <<>>

\* C9: once the fetch of the seed has failed, only the seed is visited, the
\* frontier and the corpus are empty, the loop is left, and the script ends
\* with the "No data was scraped" message without calling call_llm or
\* writing the output file.
C9_SeedFailure ==
  START_URL \in failed_urls =>
    /\ visited_urls = {START_URL}
    /\ urls_to_visit = {}
    /\ CorpusEmpty
    /\ pc \in {"while", "returned", "exit"}
    /\ llm_calls = 0
    /\ output_file = ""
    /\ pc = "exit" => stdout = "No data was scraped successfully."

\* the script ended after the seed's fetch failed
C9_Witness == pc = "exit" /\ START_URL \in failed_urls

\* C10: with no API key the script goes from its start to its end with the
\* credential message: no frontier, no fetch, no sleep, no call_llm, no write.
C10_NoKeyNoCrawl ==
  GOOGLE_API_KEY = "" =>
    /\ pc \in {"main", "exit"}
    /\ visited_urls = {}
    /\ urls_to_visit = {}
    /\ BagCardinality(fetch_calls) = 0
    /\ sleep_calls = 0
    /\ llm_calls = 0
    /\ output_file = ""
    /\ pc = "exit" =>
         stdout = "Error: GOOGLE_API_KEY environment variable not set."

\* the script ended without a key
C10_Witness == pc = "exit" /\ GOOGLE_API_KEY = ""

PageSeparator == <<"\n", "\n">>

AfterCrawl == pc \in {"returned", "call_llm", "save_output", "exit"}

\* C11: with a budget of 1 a run with a key makes exactly one fetch, of the
\* seed; the loop is left after it whatever the frontier holds; and the
\* corpus is what that one page gave (text and separator, its links, images
\* and tables), or empty when nothing was extracted.
C11_BudgetOfOne ==
  (MAX_PAGES_TO_CRAWL = 1 /\ GOOGLE_API_KEY # "") =>
    /\ BagCardinality(fetch_calls) <= 1
    /\ Fetched \subseteq {START_URL}
    /\ BagCardinality(fetch_calls) = 1 => pc \notin {"pop", "sleep", "fetch"}
    /\ AfterCrawl => CopiesIn(START_URL, fetch_calls) = 1
    /\ IF last_fetch = "ok"
         THEN /\ \E body \in Bodies :
                   /\ all_text = body.text \o PageSeparator
                   /\ all_tables =
                        [i \in 1..Len(body.tables) |-> <<i, body.tables[i]>>]
              /\ all_images = page_images
              /\ all_links \ {START_URL} = urls_to_visit
         ELSE CorpusEmpty

\* a run with budget 1 ended with discovered links left in the frontier
C11_Witness ==
  /\ MAX_PAGES_TO_CRAWL = 1
  /\ pc = "exit"
  /\ last_fetch = "ok"
  /\ Cardinality(urls_to_visit) >= 2
  /\ all_tables # <<>>

\* C12: crawl() terminates: the loop is eventually left (or never entered),
\* after at most budget fetches; every pop strictly shrinks the frontier, an
\* iteration that stops at the `continue` leaves visited_urls as it was, and
\* every fetch adds one URL to visited_urls.
C12_CrawlTerminates ==
  /\ <>(pc \in {"returned", "exit"})
  /\ [](BagCardinality(fetch_calls) <= MAX_PAGES_TO_CRAWL)
  /\ [][pc = "pop" =>
          /\ urls_to_visit' \subseteq urls_to_visit
          /\ urls_to_visit' # urls_to_visit
          /\ visited_urls' = visited_urls]_vars
  /\ [][pc = "fetch" =>
          Cardinality(visited_urls') = Cardinality(visited_urls) + 1]_vars

\* the loop ended on an empty frontier, budget left, after a page that
\* linked to itself and a failed fetch
C12_Witness ==
  /\ pc = "returned"
  /\ "self" \in relinked
  /\ failed_urls # {}
  /\ urls_to_visit = {}
  /\ Cardinality(visited_urls) < MAX_PAGES_TO_CRAWL

\* C13: when generate_content raises, call_llm returns the error text, the
\* script goes on to save_output with it, a successful write leaves exactly
\* that text in the output file, and the corpus is not touched.
C13_LlmErrorPersisted ==
  /\ [](llm_failed =>
          /\ llm_interpretation = "Error during LLM processing: e"
          /\ pc \in {"save_output", "exit"}
          /\ ~CorpusEmpty
          /\ stdout = "LLM output saved to llm_analysis.txt" =>
               output_file = "Error during LLM processing: e")
  /\ [][(pc = "call_llm" \/ pc = "save_output") => CorpusUnchanged]_vars

\* the error text of a failed summarization was written to the file
C13_Witness ==
  /\ pc = "exit"
  /\ llm_failed
  /\ output_file = "Error during LLM processing: e"

\* C14 as stated: when two pages have added the same URL to the frontier
\* before it was visited, pop later returns that URL while it is in
\* visited_urls, so a crawl that emptied the frontier after such a double
\* offer went through the `continue` of line 143 at least once.
C14_PopReturnsVisited ==
  (pc = "returned" /\ dup_offered /\ urls_to_visit = {}) => skips >= 1

\* C14 amended: pop never returns a visited URL; the frontier is a set
\* disjoint from visited_urls, a URL offered twice is held and popped once,
\* and no iteration ends at the `continue` of line 143.
C14_PopNeverVisited ==
  /\ skips = 0
  /\ pc = "pop" => urls_to_visit \cap visited_urls = {}

\* the frontier was emptied after a page linked to a URL that was already
\* waiting in the frontier
C14_Witness ==
  /\ pc = "returned"
  /\ dup_offered
  /\ urls_to_visit = {}
  /\ Cardinality(visited_urls) >= 3

\* C15: one sleep of REQUEST_DELAY per fetch_page call, made right before
\* it: the time slept is REQUEST_DELAY times the number of fetches made plus
\* the one about to be made, so no sleep happens without a fetch.
C15_DelayPerFetch ==
  sleep_calls =
    (BagCardinality(fetch_calls) + (IF pc = "fetch" THEN 1 ELSE 0))
      * REQUEST_DELAY

\* the third fetch of a run is about to be made, after its own sleep
C15_Witness ==
  /\ pc = "fetch"
  /\ BagCardinality(fetch_calls) = 2
  /\ sleep_calls = 3 * REQUEST_DELAY
  /\ failed_urls # {}

\* C16: at the loop test every collected link is visited or in the
\* frontier; when the loop ends with budget left the frontier is empty and
\* the seed and every collected link are visited; every visited URL was
\* fetched exactly once.
C16_FrontierDrained ==
  /\ pc \in {"while", "pop", "returned"} =>
       all_links \subseteq visited_urls \cup urls_to_visit
  /\ (pc = "returned" /\ Cardinality(visited_urls) < MAX_PAGES_TO_CRAWL) =>
       /\ urls_to_visit = {}
       /\ START_URL \in visited_urls
       /\ all_links \subseteq visited_urls
  /\ \A url \in visited_urls : CopiesIn(url, fetch_calls) = 1

\* the loop ended with budget left after links were collected and each of
\* them was fetched
C16_Witness ==
  /\ pc = "returned"
  /\ Cardinality(visited_urls) < MAX_PAGES_TO_CRAWL
  /\ Cardinality(all_links) >= 2
  /\ urls_to_visit = {}

\* C17 as stated: every fetch that does not fail, whatever the body, marks
\* the URL visited and extends all_text by the page text and the separator.
C17_SuccessIsExtracted ==
  [][(pc = "fetch" /\ pc' = "while" /\ last_fetch' # "failed") =>
       /\ visited_urls' = visited_urls \cup {current_url}
       /\ Len(all_text') >= Len(all_text) + Len(PageSeparator)
       /\ SubSeq(all_text', 1, Len(all_text)) = all_text
       /\ SubSeq(all_text', Len(all_text') - 1, Len(all_text')) = PageSeparator
    ]_vars

IsPrefix(a, b) == Len(a) <= Len(b) /\ SubSeq(b, 1, Len(a)) = a

\* C18: across every step the old all_text and all_tables are prefixes of
\* the new ones and all_links and all_images only gain elements; a step
\* other than a fetch with a truthy body leaves the corpus unchanged.
C18_CorpusAppendOnly ==
  [][/\ IsPrefix(all_text, all_text')
     /\ IsPrefix(all_tables, all_tables')
     /\ all_links \subseteq all_links'
     /\ all_images \subseteq all_images'
     /\ ~(pc = "fetch" /\ last_fetch' = "ok") => CorpusUnchanged]_vars

\* two pages with tables were merged, with a failed fetch in the run
C18_Witness ==
  /\ pc = "while"
  /\ Len(all_tables) >= 4
  /\ failed_urls # {}
  /\ Cardinality(all_images) >= 2

Min(a, b) == IF a < b THEN a ELSE b

Range(seq) == { seq[i] : i \in 1..Len(seq) }

PromptBuilt == pc \in {"prompt_rerun", "prompt_done"}

\* C19 as stated: at most LINK_LIMIT links and images and TABLE_LIMIT tables
\* are shown, a truncated link or image list carries a marker stating how
\* many entries were left out, and the tables marker is there exactly when
\* there are more tables than shown.
C19_MarkerStatesCount ==
  PromptBuilt =>
    /\ Len(prompt.links) <= LINK_LIMIT
    /\ Len(prompt.images) <= IMAGE_LIMIT
    /\ Len(prompt.tables) <= TABLE_LIMIT
    /\ Cardinality(all_links) > LINK_LIMIT =>
         ToString(Cardinality(all_links) - LINK_LIMIT)
           \in Range(prompt.links_marker)
    /\ Cardinality(all_images) > IMAGE_LIMIT =>
         ToString(Cardinality(all_images) - IMAGE_LIMIT)
           \in Range(prompt.images_marker)
    /\ prompt.tables_marker # <<>> <=> Len(all_tables) > Len(prompt.tables)

\* C19 amended: at most LINK_LIMIT links and images and TABLE_LIMIT tables
\* are shown; a truncated link or image list is followed by the marker
\* "...", which states no number (the prompt gives the total in the
\* heading), and is absent otherwise; the tables marker is there exactly
\* when there are more tables than shown.
C19_PromptTruncation ==
  PromptBuilt =>
    /\ Len(prompt.links) = Min(Cardinality(all_links), LINK_LIMIT)
    /\ Range(prompt.links) \subseteq all_links
    /\ Len(prompt.images) = Min(Cardinality(all_images), IMAGE_LIMIT)
    /\ Range(prompt.images) \subseteq all_images
    /\ Len(prompt.tables) = Min(Len(all_tables), TABLE_LIMIT)
    /\ prompt.links_total = Cardinality(all_links)
    /\ prompt.images_total = Cardinality(all_images)
    /\ prompt.links_marker =
         IF Cardinality(all_links) > LINK_LIMIT THEN <<"...">> ELSE <<>>
    /\ prompt.images_marker =
         IF Cardinality(all_images) > IMAGE_LIMIT THEN <<"...">> ELSE <<>>
    /\ prompt.tables_marker # <<>> <=> Len(all_tables) > Len(prompt.tables)

\* a prompt built from more links, images and tables than are shown
C19_Witness ==
  /\ PromptBuilt
  /\ Cardinality(all_links) > LINK_LIMIT
  /\ Cardinality(all_images) > IMAGE_LIMIT
  /\ Len(all_tables) > TABLE_LIMIT

\* C20 as stated: two runs that end with the same corpus and seed build the
\* same prompt.
C20_PromptDeterministic ==
  pc = "prompt_done" => prompt = prompt_rerun

====
